---- MODULE Spec2Model ----
(***************************************************************************)
(* Model of analog_sim.fixture.Fixture (src/analog_sim/fixture/fixture.py) *)
(* and of the schematic netlister it calls (src/analog_sim/tools/xschem.py)*)
(*                                                                         *)
(* Strings of the program that are only compared or copied are TLA+        *)
(* strings; strings the program scans (configuration paths) are sequences  *)
(* of one-character strings.  A Python dict is an ordered dictionary: a    *)
(* sequence of [key, val] records with pairwise distinct keys, in          *)
(* insertion order.  The netlist text is a sequence of lines, each a       *)
(* record [k, n, t, o, b]: k the kind of line, n a name or literal text,   *)
(* t a component type, o the identity of the rendered object and b the     *)
(* backend the renderer was handed.                                        *)
(***************************************************************************)
EXTENDS Integers, Sequences, FiniteSets, TLC

VARIABLES
    SIMULATOR,       \* os.environ['SIMULATOR'] when the Fixture was built
    analog_sim_obj,  \* self.analog_sim_obj ("unset": attribute never assigned)
    includes,        \* self.includes
    pvt,             \* self.pvt ([set |-> FALSE]: attribute never assigned)
    power_domains,   \* self.power_domains
    components,      \* self.components
    simulation,      \* self.simulation ("None" before set_simulation)
    file,            \* the netlist file at run_dir/temp_netlist
    pc,              \* position inside run_simulation ("idle" outside it)
    rs_log,          \* steps the running/last run_simulation has performed
    last             \* the last call made on the Fixture and how it ended

vars == <<SIMULATOR, analog_sim_obj, includes, pvt, power_domains, components,
          simulation, file, pc, rs_log, last>>

(***************************************************************************)
(* Bounds of the model.                                                    *)
(***************************************************************************)
MaxIncludes == 1
MaxDomains == 2
MaxComponents == 2

(***************************************************************************)
(* Ordered dictionaries (Python dict).                                     *)
(***************************************************************************)
DictKeys(d) == {d[i].key : i \in DOMAIN d}

DictHas(d, k) == k \in DictKeys(d)

DictGet(d, k) == d[CHOOSE i \in DOMAIN d : d[i].key = k].val

\* d[k] = v: an existing key keeps its position, a new key goes last
DictSet(d, k, v) ==
    IF DictHas(d, k)
    THEN [i \in DOMAIN d |-> IF d[i].key = k THEN [key |-> k, val |-> v] ELSE d[i]]
    ELSE Append(d, [key |-> k, val |-> v])

(***************************************************************************)
(* The process environment and the files the Fixture reads.                *)
(***************************************************************************)
\* the characters [A-Z_] of the pattern used by set_include and set_pvt
UpperChars == {"A", "B", "_"}

\* os.environ, apart from SIMULATOR: A is defined, B is not
Environ == << [key |-> <<"A">>, val |-> <<"/", "e">>] >>

\* yaml documents: the 'include' and 'pvt' keys may be missing, and so may
\* the corner -> nominal path inside 'pvt'
DocFull == [has_include |-> TRUE, include |-> "mylib", has_pvt |-> TRUE,
            pvt |-> [set |-> TRUE, has_corner |-> TRUE, nominal |-> "tt"]]

DocNoCorner == [has_include |-> TRUE, include |-> "lib2", has_pvt |-> TRUE,
                pvt |-> [set |-> TRUE, has_corner |-> FALSE, nominal |-> ""]]

DocEmpty == [has_include |-> FALSE, include |-> "", has_pvt |-> FALSE,
             pvt |-> [set |-> FALSE, has_corner |-> FALSE, nominal |-> ""]]

\* the files that exist, by path
FileSystem == << [key |-> <<"/", "e", "/", "c">>, val |-> DocFull],
                 [key |-> <<"/", "e", "/", "d">>, val |-> DocNoCorner],
                 [key |-> <<"/", "e", "/", "n">>, val |-> DocEmpty] >>

RECURSIVE UpperRun(_, _)
\* how many characters of s from position i on are in [A-Z_]
UpperRun(s, i) ==
    IF i <= Len(s) /\ s[i] \in UpperChars THEN 1 + UpperRun(s, i + 1) ELSE 0

\* re.match(r'\$[A-Z_]+', s).group(0); <<>> stands for a None match
ReMatch(s) ==
    IF Len(s) >= 1 /\ s[1] = "$" /\ UpperRun(s, 2) >= 1
    THEN SubSeq(s, 1, 1 + UpperRun(s, 2))
    ELSE <<>>

RECURSIVE StrReplace(_, _, _)
\* s.replace(old, new) for a non-empty old: every occurrence, left to right
StrReplace(s, old, new) ==
    IF Len(s) < Len(old) THEN s
    ELSE IF SubSeq(s, 1, Len(old)) = old
         THEN new \o StrReplace(SubSeq(s, Len(old) + 1, Len(s)), old, new)
         ELSE <<s[1]>> \o StrReplace(Tail(s), old, new)

\* lines 50-55 and 63-68: what reading the configuration at path s ends in,
\* [exc, doc]: exc = "none" when the document was loaded
LoadConfig(s) ==
    LET x == ReMatch(s)
        name == Tail(x)
        path == StrReplace(s, x, DictGet(Environ, name))
    IN  IF x = <<>> THEN [exc |-> "AttributeError", doc |-> DocEmpty]
        ELSE IF ~DictHas(Environ, name) THEN [exc |-> "KeyError", doc |-> DocEmpty]
        ELSE IF ~DictHas(FileSystem, path)
             THEN [exc |-> "FileNotFoundError", doc |-> DocEmpty]
        ELSE [exc |-> "none", doc |-> DictGet(FileSystem, path)]

\* what the last call was and how it ended
Call(op, str, arg, exc, val, warned) ==
    [op |-> op, str |-> str, arg |-> arg, exc |-> exc, val |-> val, warned |-> warned]

(***************************************************************************)
(* The setters.                                                            *)
(***************************************************************************)
\* IncludeLibrary(include, corner)
IncludeLibrary(include, corner) == [lib |-> include, corner |-> corner]

\* line 56 with self.pvt never missing, as if __init__ had assigned it
IncludeExc_pvtPreset(d) ==
    IF ~d.has_include THEN "KeyError" ELSE "none"

\* how line 56 ends once the document d is loaded
IncludeExc(d) ==
    IF ~d.has_include THEN "KeyError"
    ELSE IF ~pvt.set THEN "AttributeError"
    ELSE IF ~pvt.has_corner THEN "KeyError"
    ELSE "none"

\* Fixture.set_include(config); config = [str, path]
set_include(config) ==
    /\ pc = "idle"
    /\ LET r == LoadConfig(config.path)
           exc == IF ~config.str THEN "none"
                  ELSE IF r.exc # "none" THEN r.exc
                  ELSE IncludeExc(r.doc)
       IN  /\ includes' = IF config.str /\ exc = "none"
                          THEN Append(includes, IncludeLibrary(r.doc.include, pvt.nominal))
                          ELSE includes
           /\ last' = Call("set_include", config.str, config.path, exc, "None", FALSE)
    /\ UNCHANGED <<SIMULATOR, analog_sim_obj, pvt, power_domains, components,
                   simulation, file, pc, rs_log>>

\* Fixture.set_pvt(config)
set_pvt(config) ==
    /\ pc = "idle"
    /\ LET r == LoadConfig(config.path)
           exc == IF ~config.str THEN "none"
                  ELSE IF r.exc # "none" THEN r.exc
                  ELSE IF ~r.doc.has_pvt THEN "KeyError"
                  ELSE "none"
       IN  /\ pvt' = IF config.str /\ exc = "none" THEN r.doc.pvt ELSE pvt
           /\ last' = Call("set_pvt", config.str, config.path, exc, "None", FALSE)
    /\ UNCHANGED <<SIMULATOR, analog_sim_obj, includes, power_domains, components,
                   simulation, file, pc, rs_log>>

\* add_component keeping the component already registered under (type, name)
add_component_keepFirst(component) ==
    /\ pc = "idle"
    /\ LET group == IF DictHas(components, component.type)
                    THEN DictGet(components, component.type)
                    ELSE <<>>
       IN  components' = IF DictHas(group, component.name) THEN components
                         ELSE DictSet(components, component.type,
                                      DictSet(group, component.name, component))
    /\ last' = Call("add_component", FALSE,
                    <<component.type, component.name, component.id>>, "none", "None", FALSE)
    /\ UNCHANGED <<SIMULATOR, analog_sim_obj, includes, pvt, power_domains,
                   simulation, file, pc, rs_log>>

\* Fixture.add_component(component); component = [type, name, id]
add_component(component) ==
    /\ pc = "idle"
    /\ LET group == IF DictHas(components, component.type)
                    THEN DictGet(components, component.type)
                    ELSE <<>>
       IN  components' = DictSet(components, component.type,
                                 DictSet(group, component.name, component))
    /\ last' = Call("add_component", FALSE,
                    <<component.type, component.name, component.id>>, "none", "None", FALSE)
    /\ UNCHANGED <<SIMULATOR, analog_sim_obj, includes, pvt, power_domains,
                   simulation, file, pc, rs_log>>

\* add_power_domain keeping the domain already registered under the name
add_power_domain_keepFirst(power_domain) ==
    /\ pc = "idle"
    /\ power_domains' = IF DictHas(power_domains, power_domain.name) THEN power_domains
                        ELSE DictSet(power_domains, power_domain.name, power_domain)
    /\ last' = Call("add_power_domain", FALSE,
                    <<power_domain.name, power_domain.id>>, "none", "None", FALSE)
    /\ UNCHANGED <<SIMULATOR, analog_sim_obj, includes, pvt, components,
                   simulation, file, pc, rs_log>>

\* Fixture.add_power_domain(power_domain); power_domain = [name, id]
add_power_domain(power_domain) ==
    /\ pc = "idle"
    /\ power_domains' = DictSet(power_domains, power_domain.name, power_domain)
    /\ last' = Call("add_power_domain", FALSE,
                    <<power_domain.name, power_domain.id>>, "none", "None", FALSE)
    /\ UNCHANGED <<SIMULATOR, analog_sim_obj, includes, pvt, components,
                   simulation, file, pc, rs_log>>

\* Fixture.get_power_domain(name): the object stored, or KeyError
get_power_domain(name) ==
    /\ pc = "idle"
    /\ last' = IF DictHas(power_domains, name)
               THEN Call("get_power_domain", TRUE, <<name>>, "none",
                         DictGet(power_domains, name).id, FALSE)
               ELSE Call("get_power_domain", TRUE, <<name>>, "KeyError", "None", FALSE)
    /\ UNCHANGED <<SIMULATOR, analog_sim_obj, includes, pvt, power_domains,
                   components, simulation, file, pc, rs_log>>

\* Fixture.set_simulation(simulation)
set_simulation(sim) ==
    /\ pc = "idle"
    /\ simulation' = sim
    /\ last' = Call("set_simulation", FALSE, <<sim>>, "none", "None", FALSE)
    /\ UNCHANGED <<SIMULATOR, analog_sim_obj, includes, pvt, power_domains,
                   components, file, pc, rs_log>>

(***************************************************************************)
(* write_netlist.                                                          *)
(***************************************************************************)
\* one line of netlist text
Line(k, n, t, o, b) == [k |-> k, n |-> n, t |-> t, o |-> o, b |-> b]

\* a line the Fixture writes itself
Lit(text) == Line("lit", text, "", "", "")

RECURSIVE AllComponents(_)
\* the components in the order of the nested loops of lines 140-141
AllComponents(d) ==
    IF d = <<>> THEN <<>> ELSE
    [i \in DOMAIN d[1].val |-> d[1].val[i].val] \o AllComponents(Tail(d))

\* lines 121-125
IncludesSection(be) ==
    <<Lit("*** Library includes")>> \o
    [i \in DOMAIN includes |->
        Line("include", includes[i].lib, includes[i].corner, "", be)]

\* SupplySection with the ground tie written inside the loop over the domains
SupplySection_tiePerDomain(be) ==
    <<Lit("*** Supply domains")>> \o
    [j \in 1..(3 * Len(power_domains)) |->
        LET d == power_domains[(j + 2) \div 3]
        IN  IF j % 3 = 1 THEN Line("domain_header", d.key, "", "", "")
            ELSE IF j % 3 = 2 THEN Line("domain", d.val.name, "", d.val.id, be)
            ELSE Lit("Vgnd0 gnd 0 0")]

\* lines 128-133
SupplySection(be) ==
    <<Lit("*** Supply domains")>> \o
    [j \in 1..(2 * Len(power_domains)) |->
        LET d == power_domains[(j + 1) \div 2]
        IN  IF j % 2 = 1 THEN Line("domain_header", d.key, "", "", "")
            ELSE Line("domain", d.val.name, "", d.val.id, be)]

\* lines 136
GroundTie == <<Lit("Vgnd0 gnd 0 0")>>

\* the component loop of lines 140-145 over the components cs
ComponentLines(cs, be) ==
    [j \in 1..(2 * Len(cs)) |->
        LET c == cs[(j + 1) \div 2]
        IN  IF j % 2 = 1 THEN Line("component_header", c.name, "", "", "")
            ELSE Line("component", c.name, c.type, c.id, be)]

\* ComponentsSection with the 'dut' group left out of the loop
ComponentsSection_skipDut(be) ==
    <<Lit("*** Components")>> \o
    ComponentLines(SelectSeq(AllComponents(components), LAMBDA c : c.type # "dut"), be)

\* lines 139-145
ComponentsSection(be) ==
    <<Lit("*** Components")>> \o ComponentLines(AllComponents(components), be)

\* lines 148-153, when the 'dut' group exists
DutSection(be) ==
    LET duts == DictGet(components, "dut")
    IN  <<Lit("*** DUTs")>> \o
        [j \in 1..(2 * Len(duts)) |->
            LET c == duts[(j + 1) \div 2]
            IN  IF j % 2 = 1 THEN Line("dut_header", c.key, "", "", "")
                ELSE Line("dut_instance", c.val.name, c.val.type, c.val.id, be)]

\* lines 158-160, when a simulation is set
SimulationSection(be) ==
    <<Lit("* Simulation command"), Line("simulation", "", "", simulation, be)>>

\* lines 118-160: the text write_netlist assembles
NetlistText(be) ==
    <<Lit("* auto-generated netlist from analog_sim environment")>>
    \o IncludesSection(be) \o SupplySection(be) \o GroundTie
    \o ComponentsSection(be) \o DutSection(be) \o SimulationSection(be)

\* how write_netlist ends, [exc, warned]: the first statement that raises
WriteNetlistEnd ==
    IF /\ analog_sim_obj = "unset"
       /\ \/ includes # <<>>
          \/ power_domains # <<>>
          \/ AllComponents(components) # <<>>
    THEN [exc |-> "AttributeError", warned |-> FALSE]
    ELSE IF ~DictHas(components, "dut")
    THEN [exc |-> "KeyError", warned |-> FALSE]
    ELSE IF simulation = "None"
    THEN [exc |-> "AttributeError", warned |-> TRUE]
    ELSE IF analog_sim_obj = "unset"
    THEN [exc |-> "AttributeError", warned |-> FALSE]
    ELSE [exc |-> "none", warned |-> FALSE]

\* lines 219-222: the file after write_netlist
WrittenFile ==
    IF WriteNetlistEnd.exc = "none"
    THEN [written |-> TRUE, text |-> NetlistText(analog_sim_obj)]
    ELSE file

\* Fixture.write_netlist()
write_netlist ==
    /\ pc = "idle"
    /\ file' = WrittenFile
    /\ last' = Call("write_netlist", FALSE, <<>>, WriteNetlistEnd.exc, "None",
                    WriteNetlistEnd.warned)
    /\ UNCHANGED <<SIMULATOR, analog_sim_obj, includes, pvt, power_domains,
                   components, simulation, pc, rs_log>>

(***************************************************************************)
(* run_simulation, statement by statement.                                 *)
(***************************************************************************)
Step(name, ok) == [step |-> name, ok |-> ok]

\* run_simulation going on to line 235 although write_netlist raised
run_simulation_write_swallow ==
    /\ pc = "idle"
    /\ file' = WrittenFile
    /\ rs_log' = <<Step("write_netlist", WriteNetlistEnd.exc = "none")>>
    /\ pc' = "line235"
    /\ last' = Call("run_simulation", FALSE, <<>>, WriteNetlistEnd.exc, "None",
                    WriteNetlistEnd.warned)
    /\ UNCHANGED <<SIMULATOR, analog_sim_obj, includes, pvt, power_domains,
                   components, simulation>>

\* line 232: self.write_netlist()
run_simulation_write ==
    /\ pc = "idle"
    /\ file' = WrittenFile
    /\ rs_log' = <<Step("write_netlist", WriteNetlistEnd.exc = "none")>>
    /\ pc' = IF WriteNetlistEnd.exc = "none" THEN "line235" ELSE "idle"
    /\ last' = Call("run_simulation", FALSE, <<>>, WriteNetlistEnd.exc, "None",
                    WriteNetlistEnd.warned)
    /\ UNCHANGED <<SIMULATOR, analog_sim_obj, includes, pvt, power_domains,
                   components, simulation>>

\* line 235: self.analog_sim_obj.run_simulation(), which returns or raises
run_simulation_run(ok) ==
    /\ pc = "line235"
    /\ rs_log' = Append(rs_log, Step("backend.run_simulation", ok))
    /\ pc' = IF ok THEN "line238" ELSE "idle"
    /\ last' = [last EXCEPT !.exc = IF ok THEN "none" ELSE "BackendError"]
    /\ UNCHANGED <<SIMULATOR, analog_sim_obj, includes, pvt, power_domains,
                   components, simulation, file>>

\* line 238: self.analog_sim_obj.read_results(), which returns or raises
run_simulation_read(ok) ==
    /\ pc = "line238"
    /\ rs_log' = Append(rs_log, Step("backend.read_results", ok))
    /\ pc' = "idle"
    /\ last' = [last EXCEPT !.exc = IF ok THEN "none" ELSE "BackendError"]
    /\ UNCHANGED <<SIMULATOR, analog_sim_obj, includes, pvt, power_domains,
                   components, simulation, file>>

(***************************************************************************)
(* Construction.                                                           *)
(***************************************************************************)
\* lines 32-43: the backend the constructor constructs for os.environ['SIMULATOR']
SelectBackend(name) ==
    IF name = "xyce" THEN "XyceInterface"
    ELSE IF name = "ngspice" THEN "NgSpiceInterface"
    ELSE IF name = "spectre" THEN "SpectreInterface"
    ELSE "unset"

\* the backends of lines 34-43
Backends == {"XyceInterface", "NgSpiceInterface", "SpectreInterface"}

\* DUTComponent(name, netlist): the component the constructor registers
DUTComponent(name, netlist) == [type |-> "dut", name |-> name, id |-> netlist]

\* the Fixture once Fixture(cell_name) has returned, os.environ['SIMULATOR']
\* being sim
Constructed(cell_name, sim) ==
    /\ SIMULATOR = sim
    /\ analog_sim_obj = SelectBackend(sim)
    /\ includes = <<>>
    /\ pvt = [set |-> FALSE, has_corner |-> FALSE, nominal |-> ""]
    /\ power_domains = <<>>
    /\ components = DictSet(<<>>, "dut",
                            DictSet(<<>>, cell_name, DUTComponent(cell_name, "xschem")))
    /\ simulation = "None"
    /\ file = [written |-> FALSE, text |-> <<>>]
    /\ pc = "idle"
    /\ rs_log = <<>>
    /\ last = Call("__init__", TRUE, <<cell_name>>, "none", "None", FALSE)

(***************************************************************************)
(* The calls a test bench makes, and the specifications.                   *)
(***************************************************************************)
\* values of os.environ['SIMULATOR']; "hspice" is none of lines 33-41
SimulatorNames == {"xyce", "ngspice", "spectre", "hspice"}

Paths == { <<"$", "A", "/", "c">>,      \* $A is defined, /e/c is DocFull
           <<"$", "A", "/", "d">>,      \* /e/d is DocNoCorner
           <<"$", "A", "/", "n">>,      \* /e/n is DocEmpty
           <<"$", "A", "/", "x">>,      \* /e/x does not exist
           <<"$", "B", "/", "c">>,      \* $B is not defined
           <<"/", "e", "/", "c">> }     \* an existing file, named without a token

\* the config arguments: path strings, and one argument that is no string
Configs == [str : {TRUE}, path : Paths] \cup {[str |-> FALSE, path |-> <<>>]}

ComponentTypes == {"dut", "resistor"}
ComponentNames == {"top", "R1"}
ComponentIds == {"c1", "c2"}
Components == [type : ComponentTypes, name : ComponentNames, id : ComponentIds]

DomainNames == {"vdd", "vss"}
DomainIds == {"d1", "d2"}
Domains == [name : DomainNames, id : DomainIds]

\* the one simulation directive the specifications set
Simulations == {"tran"}

\* the arguments of the netlist specifications: one valid configuration, a
\* second DUT and two resistors, one object per power-domain name
ConfigsSmall == {[str |-> TRUE, path |-> <<"$", "A", "/", "c">>]}

ComponentsSmall == { [type |-> "dut", name |-> "dut2", id |-> "c1"],
                     [type |-> "resistor", name |-> "R1", id |-> "c1"],
                     [type |-> "resistor", name |-> "R2", id |-> "c1"] }

DomainsSmall == [name : DomainNames, id : {"d1"}]

HasComponent(type, name) ==
    DictHas(components, type) /\ DictHas(DictGet(components, type), name)

\* the calls that take an argument, with arguments from the given sets
SetInclude(configs) ==
    \E config \in configs : Len(includes) < MaxIncludes /\ set_include(config)

SetPvt(configs) == \E config \in configs : set_pvt(config)

AddComponent(comps) ==
    \E c \in comps :
        /\ HasComponent(c.type, c.name) \/ Len(AllComponents(components)) < MaxComponents
        /\ add_component(c)

AddPowerDomain(doms) ==
    \E d \in doms :
        /\ DictHas(power_domains, d.name) \/ Len(power_domains) < MaxDomains
        /\ add_power_domain(d)

GetPowerDomain == \E name \in DomainNames : get_power_domain(name)

SetSimulation(sims) == \E sim \in sims : set_simulation(sim)

\* run_simulation, one statement at a time
RunSimulation ==
    \/ run_simulation_write
    \/ \E ok \in BOOLEAN : run_simulation_run(ok)
    \/ \E ok \in BOOLEAN : run_simulation_read(ok)

\* every Fixture a constructor returns
Init == \E sim \in SimulatorNames : Constructed("top", sim)

\* every call on the Fixture
Next ==
    \/ SetInclude(ConfigsSmall)
    \/ SetPvt(ConfigsSmall)
    \/ AddComponent(ComponentsSmall)
    \/ AddPowerDomain(DomainsSmall)
    \/ GetPowerDomain
    \/ SetSimulation(Simulations)
    \/ write_netlist
    \/ RunSimulation

Spec == Init /\ [][Next]_vars

\* the registries, with every argument
NextRegistry ==
    \/ AddComponent(Components)
    \/ AddPowerDomain(Domains)
    \/ GetPowerDomain

SpecRegistry == Init /\ [][NextRegistry]_vars

\* the configuration setters, with every argument
NextConfig ==
    \/ SetInclude(Configs)
    \/ SetPvt(Configs)

SpecConfig == Init /\ [][NextConfig]_vars

(***************************************************************************)
(* Properties of the netlist text.                                         *)
(***************************************************************************)
\* the section markers, in the order of the contract
Markers == << "*** Library includes", "*** Supply domains", "Vgnd0 gnd 0 0",
              "*** Components", "*** DUTs", "* Simulation command" >>

IsMarker(l) == l.k = "lit" /\ \E i \in DOMAIN Markers : Markers[i] = l.n

\* the markers of a text, in the order they occur
MarkersOf(text) ==
    LET ms == SelectSeq(text, IsMarker) IN [i \in DOMAIN ms |-> ms[i].n]

\* where the line Lit(marker) is in text
PosOf(text, marker) == CHOOSE i \in DOMAIN text : text[i] = Lit(marker)

\* the lines strictly between two markers, and the lines after a marker
Between(text, m1, m2) == SubSeq(text, PosOf(text, m1) + 1, PosOf(text, m2) - 1)
After(text, m) == SubSeq(text, PosOf(text, m) + 1, Len(text))

\* how many lines of text satisfy: kind k, name n, type t, object o
Count(text, k, n, t, o) ==
    Cardinality({i \in DOMAIN text :
        text[i].k = k /\ text[i].n = n /\ text[i].t = t /\ text[i].o = o})

CountKind(text, k) == Cardinality({i \in DOMAIN text : text[i].k = k})

\* the file holds the text of the Fixture as it is now: the last call was a
\* write_netlist, or a run_simulation whose write_netlist returned
FileFresh ==
    \/ last.op = "write_netlist" /\ last.exc = "none"
    \/ last.op = "run_simulation" /\ rs_log # <<>> /\ rs_log[1].ok

HasDut == DictHas(components, "dut")

\* The constructor registers a DUT and no call removes a type group: every
\* reachable Fixture has a non-empty 'dut' group, and the lookup of line 149
\* finds it.
DutAlwaysRegistered == HasDut /\ DictGet(components, "dut") # <<>>

\* C1: whatever has been registered, a netlist that write_netlist has written
\* holds each section marker exactly once, in the order: library includes,
\* supply domains, ground tie, components, DUTs, simulation command.
C1_MarkersOnceInOrder == file.written => MarkersOf(file.text) = Markers

\* C1 witness: write_netlist has just written a netlist with an include, two
\* power domains and a component besides the DUT
C1_Witness ==
    /\ last.op = "write_netlist" /\ last.exc = "none" /\ file.written
    /\ Len(includes) >= 1 /\ Len(power_domains) >= 2
    /\ Len(AllComponents(components)) >= 2

\* C2: write_netlist on a Fixture with a DUT and no simulation (and a backend)
\* warns, returns normally and leaves a netlist with an empty analysis section.
C2_NoSimulationDoesNotRaise ==
    (/\ last.op = "write_netlist" /\ simulation = "None"
     /\ HasDut /\ analog_sim_obj \in Backends)
    => /\ last.exc = "none" /\ last.warned
       /\ file.written
       /\ CountKind(After(file.text, "* Simulation command"), "simulation") = 0

\* C3 as stated: the Components section of a written netlist renders no
\* component of type 'dut'.
C3_NoDutInComponents ==
    file.written =>
        \A i \in DOMAIN Between(file.text, "*** Components", "*** DUTs") :
            Between(file.text, "*** Components", "*** DUTs")[i].t # "dut"

\* C3 amended: in the netlist write_netlist has just written, the Components
\* section renders every registered component once, those of type 'dut'
\* included, and nothing else; the DUTs section holds one instantiation for
\* each component of type 'dut' and nothing else; and neither kind of line
\* occurs outside its section.
C3_ComponentsAndDuts ==
    FileFresh =>
        LET comps == Between(file.text, "*** Components", "*** DUTs")
            duts == Between(file.text, "*** DUTs", "* Simulation command")
            all == AllComponents(components)
        IN  /\ \A i \in DOMAIN all :
                Count(comps, "component", all[i].name, all[i].type, all[i].id) = 1
            /\ CountKind(comps, "component") = Len(all)
            /\ CountKind(file.text, "component") = Len(all)
            /\ \A i \in DOMAIN all :
                Count(duts, "dut_instance", all[i].name, all[i].type, all[i].id)
                    = IF all[i].type = "dut" THEN 1 ELSE 0
            /\ CountKind(duts, "dut_instance")
                    = Cardinality({i \in DOMAIN all : all[i].type = "dut"})
            /\ CountKind(file.text, "dut_instance") = CountKind(duts, "dut_instance")

\* C3 witness: a netlist just written for the DUT and a resistor
C3_Witness ==
    /\ FileFresh /\ file.written
    /\ HasComponent("dut", "top") /\ HasComponent("resistor", "R1")
    /\ CountKind(Between(file.text, "*** Components", "*** DUTs"), "component") = 2

(***************************************************************************)
(* Properties of run_simulation and of the backend.                        *)
(***************************************************************************)
\* C4: run_simulation calls write_netlist, backend.run_simulation and
\* backend.read_results in that order and stops at the first that raises:
\* backend.run_simulation is only called after write_netlist returned (the
\* file written), backend.read_results only after backend.run_simulation
\* returned, and nothing is called after a step that raised.
C4_RunSimulationOrder ==
    /\ Len(rs_log) <= 3
    /\ \A i \in DOMAIN rs_log :
        /\ i = 1 <=> rs_log[i].step = "write_netlist"
        /\ i = 2 <=> rs_log[i].step = "backend.run_simulation"
        /\ i = 3 <=> rs_log[i].step = "backend.read_results"
        /\ i > 1 => rs_log[i - 1].ok
        /\ i = 2 => file.written
        /\ ~rs_log[i].ok =>
              /\ i = Len(rs_log) /\ pc = "idle"
              /\ last.op = "run_simulation" => last.exc # "none"

\* C4 witness: a run_simulation that went through its three steps
C4_Witness ==
    /\ Len(rs_log) = 3 /\ rs_log[3].step = "backend.read_results" /\ rs_log[3].ok
    /\ pc = "idle" /\ last.op = "run_simulation" /\ last.exc = "none"

\* C10: every constructed Fixture holds the backend that the constructor
\* selected from SIMULATOR, whatever has been called on it since.
C10_BackendHeld ==
    analog_sim_obj \in Backends /\ analog_sim_obj = SelectBackend(SIMULATOR)

(***************************************************************************)
(* Properties of the configuration setters.                                *)
(***************************************************************************)
\* C5: a set_include with a string argument raises and leaves the includes
\* alone while no set_pvt has succeeded; when it returns, a set_pvt has
\* succeeded before and exactly one IncludeLibrary, built with the nominal
\* corner of the PVT settings, has been appended; when it raises, the
\* includes are unchanged.
C5_IncludeNeedsPvt ==
    [][(last'.op = "set_include" /\ last'.str) =>
        /\ ~pvt.set => last'.exc # "none" /\ includes' = includes
        /\ last'.exc # "none" => includes' = includes
        /\ last'.exc = "none" =>
            /\ pvt.set /\ pvt.has_corner
            /\ Len(includes') = Len(includes) + 1
            /\ SubSeq(includes', 1, Len(includes)) = includes
            /\ includes'[Len(includes')] =
                  IncludeLibrary(DictGet(FileSystem,
                      StrReplace(last'.arg, <<"$", "A">>, <<"/", "e">>)).include,
                      pvt.nominal)]_vars

\* C5 witness: set_include of a valid configuration raised because no set_pvt
\* had been made
C5_Witness ==
    /\ last.op = "set_include" /\ last.arg = <<"$", "A", "/", "c">>
    /\ ~pvt.set /\ last.exc = "AttributeError" /\ includes = <<>>

\* C6: set_pvt with the path of an existing configuration that begins with
\* no environment-variable token opens the path as given and succeeds.
C6_TokenOptional ==
    (/\ last.op = "set_pvt" /\ last.str /\ ReMatch(last.arg) = <<>>
     /\ DictHas(FileSystem, last.arg) /\ DictGet(FileSystem, last.arg).has_pvt)
    => last.exc = "none" /\ pvt = DictGet(FileSystem, last.arg).pvt

(***************************************************************************)
(* Properties of the registries.                                           *)
(***************************************************************************)
\* the component registered under (type, name)
Lookup(type, name) == DictGet(DictGet(components, type), name)

GroupSize(type) ==
    IF DictHas(components, type) THEN Len(DictGet(components, type)) ELSE 0

\* C7: add_component never raises; afterwards (type, name) of its argument
\* maps to the argument; every other (type, name) is registered exactly if it
\* was before and maps to the same component; and when (type, name) was
\* registered already the number of entries of the type group is unchanged.
\* No other call changes the registry.
C7_LastAddWins ==
    [][/\ \A c \in Components :
            (last'.op = "add_component" /\ last'.arg = <<c.type, c.name, c.id>>) =>
                /\ last'.exc = "none"
                /\ HasComponent(c.type, c.name)' /\ Lookup(c.type, c.name)' = c
                /\ HasComponent(c.type, c.name) =>
                       GroupSize(c.type)' = GroupSize(c.type)
                /\ ~HasComponent(c.type, c.name) =>
                       GroupSize(c.type)' = GroupSize(c.type) + 1
                /\ \A t \in ComponentTypes, n \in ComponentNames :
                       <<t, n>> # <<c.type, c.name>> =>
                           /\ HasComponent(t, n)' <=> HasComponent(t, n)
                           /\ HasComponent(t, n) => Lookup(t, n)' = Lookup(t, n)
       /\ last'.op # "add_component" => components' = components]_vars

\* C7 witness: the DUT registered by the constructor has been replaced by a
\* component added under the same type and name, and the group still has one entry
C7_Witness ==
    /\ last.op = "add_component" /\ last.arg = <<"dut", "top", "c2">>
    /\ Lookup("dut", "top").id = "c2" /\ GroupSize("dut") = 1

\* C8: get_power_domain returns the object registered under the name, or
\* raises KeyError when none is, and changes nothing; add_power_domain
\* registers its argument under its name in place of any earlier one and
\* leaves the other names alone; no other call changes the mapping.
C8_PowerDomainLookup ==
    /\ [](last.op = "get_power_domain" =>
            IF DictHas(power_domains, last.arg[1])
            THEN last.exc = "none"
                 /\ last.val = DictGet(power_domains, last.arg[1]).id
            ELSE last.exc = "KeyError")
    /\ [][/\ last'.op = "get_power_domain" =>
                UNCHANGED <<SIMULATOR, analog_sim_obj, includes, pvt, power_domains,
                            components, simulation, file, pc, rs_log>>
          /\ \A d \in Domains :
                (last'.op = "add_power_domain" /\ last'.arg = <<d.name, d.id>>) =>
                    /\ DictHas(power_domains, d.name)'
                    /\ DictGet(power_domains, d.name)' = d
                    /\ \A n \in DomainNames \ {d.name} :
                        /\ DictHas(power_domains, n)' <=> DictHas(power_domains, n)
                        /\ DictHas(power_domains, n) =>
                             DictGet(power_domains, n)' = DictGet(power_domains, n)
          /\ last'.op # "add_power_domain" => power_domains' = power_domains]_vars

\* C8 witness: get_power_domain returned the object d2 registered under vdd
C8_Witness ==
    /\ last.op = "get_power_domain" /\ last.arg = <<"vdd">> /\ last.val = "d2"
    /\ Len(power_domains) = 1

====
